---- MODULE Spec2Model ----
(***************************************************************************)
(* Verification model of the Propalyst backend:                            *)
(*   - the five-slot conversational intake (agent/graph.py,                *)
(*     agent/nodes/propalyst_qa.py, routers/propalyst_router.py,           *)
(*     sessions.py, agent/state.py, agent/nodes/calculate_areas.py);       *)
(*   - the batch relevance scorer (services/relevance_scoring_service.py). *)
(*                                                                         *)
(* Python values are modelled as tagged records [k, n, s] so that None,    *)
(* booleans, integers and strings can sit in the same slot, as they do in  *)
(* the untyped session dict.  Message texts are real strings: the          *)
(* presenters decide on len() and substring tests, which are computed.     *)
(***************************************************************************)
EXTENDS Integers, Sequences, FiniteSets, TLC

VARIABLES
    sessions,    \* sessions.py: the in-memory dict session_id -> PropalystState
    request,     \* the last HTTP request handled and what the LLM did during it
    response,    \* the HTTP response of that request
    turns,       \* number of HTTP requests handled so far
    route_in,    \* router harness: the state handed to route_propalyst
    route_out,   \* router harness: the node name it returned
    node_state,  \* area-node harness: the state handed to calculate_recommended_areas
    node_prev,   \* area-node harness: the state before the latest invocation
    node_calls,  \* area-node harness: number of invocations so far
    properties,        \* scorer: the list handed to score_properties_batch (dicts, mutated in place)
    batch_size,        \* scorer: the batch_size argument
    prompt_template,   \* scorer: self.prompt_template, loaded from the prompt file
    scored_properties, \* scorer: the result list, as references (indexes) into properties
    batch_start,       \* scorer: the loop variable i of score_properties_batch
    attempt,           \* scorer: the loop variable attempt of _score_batch
    results_left,      \* scorer: elements of the parsed response array not yet mapped
    backend_response,  \* scorer: what the backend did on the latest attempt
    score_pc,          \* scorer: position in the code
    stream_log,        \* streaming endpoint: backend calls made and events yielded, in order
    stream_emitted,    \* streaming endpoint: items of the current batch already yielded
    stream_pc,         \* streaming endpoint: position in generate_sse_events
    data_file,         \* persistence: the content of scraped_properties.json
    store_log,         \* persistence: the DataPersistenceService calls so far, with their results
    heap,              \* overlapping requests: the state dicts, by identity
    stored,            \* overlapping requests: identity of the dict sessions holds (0: none)
    tasks,             \* overlapping requests: the locals of each propalyst_chat coroutine
    ask_state,         \* presenter harness: the state handed to a presenter, then its result
    ask_prev,          \* presenter harness: the state before the latest invocation
    ask_slots,         \* presenter harness: the slots whose presenters were invoked, in order
    batch_call,        \* batch endpoint: the latest request, what it called and its response
    batch_count        \* batch endpoint: number of requests handled so far

chatVars == <<sessions, request, response, turns>>
routeVars == <<route_in, route_out>>
nodeVars == <<node_state, node_prev, node_calls>>
scoreVars == <<properties, batch_size, prompt_template, scored_properties,
               batch_start, attempt, results_left, backend_response, score_pc>>
streamVars == <<stream_log, stream_emitted, stream_pc>>
storeVars == <<data_file, store_log>>
overlapVars == <<heap, stored, tasks>>
askVars == <<ask_state, ask_prev, ask_slots>>
batchVars == <<batch_call, batch_count>>

\* What the steps of one component leave alone
chatFrame == <<routeVars, nodeVars, scoreVars, streamVars, storeVars, overlapVars, askVars, batchVars>>
routeFrame == <<chatVars, nodeVars, scoreVars, streamVars, storeVars, overlapVars, askVars, batchVars>>
nodeFrame == <<chatVars, routeVars, scoreVars, streamVars, storeVars, overlapVars, askVars, batchVars>>
scoreFrame == <<chatVars, routeVars, nodeVars, streamVars, storeVars, overlapVars, askVars, batchVars>>

-----------------------------------------------------------------------------
(* Python values *)

NoneV == [k |-> "none", n |-> 0, s |-> ""]
StrV(t) == [k |-> "str", n |-> 0, s |-> t]
IntV(i) == [k |-> "int", n |-> i, s |-> ""]
BoolV(b) == [k |-> "bool", n |-> IF b THEN 1 ELSE 0, s |-> ""]

\* Python truthiness: None, False, 0 and "" are falsy.
Truthy(v) ==
    CASE v.k = "none" -> FALSE
      [] v.k = "bool" -> v.n = 1
      [] v.k = "int" -> v.n # 0
      [] v.k = "str" -> v.s # ""

IsNone(v) == v.k = "none"

-----------------------------------------------------------------------------
(* Strings: substring test and str.lower() *)

Contains(s, kw) ==
    \E i \in 1..(Len(s) - Len(kw) + 1) : SubSeq(s, i, i + Len(kw) - 1) = kw

LowerChar(c) ==
    CASE c = "A" -> "a" [] c = "B" -> "b" [] c = "C" -> "c" [] c = "D" -> "d"
      [] c = "E" -> "e" [] c = "F" -> "f" [] c = "G" -> "g" [] c = "H" -> "h"
      [] c = "I" -> "i" [] c = "J" -> "j" [] c = "K" -> "k" [] c = "L" -> "l"
      [] c = "M" -> "m" [] c = "N" -> "n" [] c = "O" -> "o" [] c = "P" -> "p"
      [] c = "Q" -> "q" [] c = "R" -> "r" [] c = "S" -> "s" [] c = "T" -> "t"
      [] c = "U" -> "u" [] c = "V" -> "v" [] c = "W" -> "w" [] c = "X" -> "x"
      [] c = "Y" -> "y" [] c = "Z" -> "z" [] OTHER -> c

\* s[i:].lower(), for i counted from 1
RECURSIVE LowerFrom(_, _)
LowerFrom(s, i) ==
    IF i > Len(s) THEN ""
    ELSE LowerChar(SubSeq(s, i, i)) \o LowerFrom(s, i + 1)

Lower(s) == LowerFrom(s, 1)

-----------------------------------------------------------------------------
(* The slot model *)

Slots == <<"work_location", "has_kids", "commute_time_max", "property_type", "budget_max">>
SlotNames == {Slots[i] : i \in 1..5}

NoComponent == [type |-> "None", field |-> ""]
UIComponent(type, field) == [type |-> type, field |-> field]

NoAreas == [some |-> FALSE, list |-> <<>>]
SomeAreas(l) == [some |-> TRUE, list |-> l]

create_propalyst_state(session_id) ==
    [ session_id        |-> session_id,
      work_location     |-> NoneV,
      has_kids          |-> NoneV,
      commute_time_max  |-> NoneV,
      property_type     |-> NoneV,
      budget_max        |-> NoneV,
      recommended_areas |-> NoAreas,
      calculated        |-> FALSE,
      messages          |-> <<>>,
      current_step      |-> 1,
      component         |-> NoComponent,
      message           |-> "",
      error             |-> NoneV ]

-----------------------------------------------------------------------------
(* Router *)

\* A router that tests has_kids for truthiness like the other slots
route_propalyst_kids_falsy(state) ==
    IF ~Truthy(state.work_location) THEN "ask_work_location"
    ELSE IF ~Truthy(state.has_kids) THEN "ask_kids"
    ELSE IF ~Truthy(state.commute_time_max) THEN "ask_commute"
    ELSE IF ~Truthy(state.property_type) THEN "ask_property_type"
    ELSE IF ~Truthy(state.budget_max) THEN "ask_budget"
    ELSE "end"

route_propalyst(state) ==
    IF ~Truthy(state.work_location) THEN "ask_work_location"
    ELSE IF IsNone(state.has_kids) THEN "ask_kids"
    ELSE IF ~Truthy(state.commute_time_max) THEN "ask_commute"
    ELSE IF ~Truthy(state.property_type) THEN "ask_property_type"
    ELSE IF ~Truthy(state.budget_max) THEN "ask_budget"
    ELSE "end"

-----------------------------------------------------------------------------
(* Question presenters *)

Greeting == "Hi! Let me help you find your perfect home. Where do you work?"
QKids == "Do you have kids?"
QProperty == "What type of property are you looking for?"
QBudget == "What's your monthly rental budget?"

\* str(value) as an f-string renders it
PyStr(v) ==
    CASE v.k = "str" -> v.s
      [] v.k = "int" -> ToString(v.n)
      [] v.k = "bool" -> (IF v.n = 1 THEN "True" ELSE "False")
      [] v.k = "none" -> "None"

QCommute(state) == "What's your ideal commute time to " \o PyStr(state.work_location) \o "?"

AgentMsg(content) == [role |-> "agent", content |-> content]
UserMsg(content) == [role |-> "user", content |-> content]

\* "ack|||question" when the previous message is an acknowledgment, else the question
Combined(prev_message, question, isQuestion) ==
    IF prev_message # "" /\ Len(prev_message) > 10 /\ ~isQuestion
    THEN prev_message \o "|||" \o question
    ELSE question

ask_work_location(state) ==
    IF Truthy(state.work_location) THEN state
    ELSE [state EXCEPT
            !.component = NoComponent,
            !.message = IF Truthy(state.error) /\ state.message # "" /\ Len(state.message) > 20
                        THEN state.message
                        ELSE Greeting,
            !.current_step = 1]

ask_kids(state) ==
    IF ~IsNone(state.has_kids) THEN state
    ELSE [state EXCEPT
            !.component = UIComponent("ButtonGroup", "has_kids"),
            !.message = Combined(state.message, QKids, Contains(state.message, "Do you")),
            !.messages = Append(state.messages, AgentMsg(QKids)),
            !.current_step = 2]

ask_commute_reasking(state) ==
    [state EXCEPT
        !.component = UIComponent("ButtonGroup", "commute_time_max"),
        !.message = Combined(state.message, QCommute(state),
                             Contains(Lower(state.message), "commute")),
        !.messages = Append(state.messages, AgentMsg(QCommute(state))),
        !.current_step = 3]

ask_commute(state) ==
    IF Truthy(state.commute_time_max) THEN state
    ELSE [state EXCEPT
            !.component = UIComponent("ButtonGroup", "commute_time_max"),
            !.message = Combined(state.message, QCommute(state),
                                 Contains(Lower(state.message), "commute")),
            !.messages = Append(state.messages, AgentMsg(QCommute(state))),
            !.current_step = 3]

ask_property_type_step_back(state) ==
    IF Truthy(state.property_type) THEN state
    ELSE [state EXCEPT
            !.component = UIComponent("ButtonGroup", "property_type"),
            !.message = Combined(state.message, QProperty,
                                 Contains(Lower(state.message), "property")),
            !.messages = Append(state.messages, AgentMsg(QProperty)),
            !.current_step = 2]

ask_property_type(state) ==
    IF Truthy(state.property_type) THEN state
    ELSE [state EXCEPT
            !.component = UIComponent("ButtonGroup", "property_type"),
            !.message = Combined(state.message, QProperty,
                                 Contains(Lower(state.message), "property")),
            !.messages = Append(state.messages, AgentMsg(QProperty)),
            !.current_step = 4]

ask_budget(state) ==
    IF Truthy(state.budget_max) THEN state
    ELSE [state EXCEPT
            !.component = UIComponent("Slider", "budget_max"),
            !.message = Combined(state.message, QBudget,
                                 Contains(Lower(state.message), "budget")),
            !.messages = Append(state.messages, AgentMsg(QBudget)),
            !.current_step = 5]

\* A mis-wired conditional edge: "ask_commute" mapped to the property-type node
propalyst_graph_miswired(state) ==
    LET node == route_propalyst(state) IN
    CASE node = "ask_work_location" -> ask_work_location(state)
      [] node = "ask_kids" -> ask_kids(state)
      [] node = "ask_commute" -> ask_property_type(state)
      [] node = "ask_property_type" -> ask_property_type(state)
      [] node = "ask_budget" -> ask_budget(state)
      [] node = "end" -> state

\* The compiled graph: the router picks one presenter, which runs once, then END.
propalyst_graph(state) ==
    LET node == route_propalyst(state) IN
    CASE node = "ask_work_location" -> ask_work_location(state)
      [] node = "ask_kids" -> ask_kids(state)
      [] node = "ask_commute" -> ask_commute(state)
      [] node = "ask_property_type" -> ask_property_type(state)
      [] node = "ask_budget" -> ask_budget(state)
      [] node = "end" -> state

-----------------------------------------------------------------------------
(* Answer validator and answer processing *)

\* What the validation backend does during one call: it raises (missing
\* credentials, network error, unparseable reply) or replies with a JSON object,
\* whose keys may be incomplete.
LlmNotCalled == [kind |-> "none", valid |-> FALSE, extracted_value |-> NoneV, message |-> "", haskeys |-> TRUE]
LlmRaises == [kind |-> "raise", valid |-> FALSE, extracted_value |-> NoneV, message |-> "", haskeys |-> TRUE]
LlmReply(valid, value, message) ==
    [kind |-> "reply", valid |-> valid, extracted_value |-> value, message |-> message, haskeys |-> TRUE]
LlmReplyNoKeys == [kind |-> "reply", valid |-> FALSE, extracted_value |-> NoneV, message |-> "", haskeys |-> FALSE]

FallbackMessage == "Thank you! Let's continue."

\* A strict variant: a backend failure rejects the answer
validate_answer_with_llm_strict(field, user_input, llm) ==
    IF field \notin SlotNames
    THEN [valid |-> FALSE, extracted_value |-> NoneV,
          message |-> "Unknown field: " \o field, haskeys |-> TRUE]
    ELSE IF llm.kind = "raise"
    THEN [valid |-> FALSE, extracted_value |-> NoneV,
          message |-> FallbackMessage, haskeys |-> TRUE]
    ELSE [valid |-> llm.valid, extracted_value |-> llm.extracted_value,
          message |-> llm.message, haskeys |-> llm.haskeys]

validate_answer_with_llm(field, user_input, llm) ==
    IF field \notin SlotNames
    THEN [valid |-> FALSE, extracted_value |-> NoneV,
          message |-> "Unknown field: " \o field, haskeys |-> TRUE]
    ELSE IF llm.kind = "raise"
    THEN [valid |-> TRUE, extracted_value |-> StrV(user_input),
          message |-> FallbackMessage, haskeys |-> TRUE]
    ELSE [valid |-> llm.valid, extracted_value |-> llm.extracted_value,
          message |-> llm.message, haskeys |-> llm.haskeys]

InvalidError == StrV("Invalid input - please try again")

\* process_user_answer, lines 720-733: what the assignment state[field] = value
\* leaves in the dict that was passed in
AnswerStored(state, field, validation) ==
    IF validation.valid /\ field \in SlotNames
    THEN [state EXCEPT ![field] = validation.extracted_value]
    ELSE state

process_user_answer_rewriting(state, field, user_input, validation) ==
    IF ~validation.valid
    THEN [state EXCEPT !.message = validation.message, !.error = InvalidError]
    ELSE IF field \in SlotNames
    THEN [state EXCEPT
            ![field] = validation.extracted_value,
            !.messages = <<UserMsg(user_input), AgentMsg(validation.message)>>,
            !.message = validation.message,
            !.error = NoneV]
    ELSE state

process_user_answer(state, field, user_input, validation) ==
    IF ~validation.valid
    THEN [state EXCEPT !.message = validation.message, !.error = InvalidError]
    ELSE IF field \in SlotNames
    THEN [state EXCEPT
            ![field] = validation.extracted_value,
            !.messages = Append(Append(state.messages, UserMsg(user_input)),
                                AgentMsg(validation.message)),
            !.message = validation.message,
            !.error = NoneV]
    ELSE state

-----------------------------------------------------------------------------
(* Area recommender *)

AreaCatalog == <<"Whitefield", "Marathahalli", "Indiranagar", "Brookefield", "Koramangala", "HSR Layout">>

calculate_recommended_areas_flag_only(state) ==
    [state EXCEPT
        !.calculated = TRUE,
        !.current_step = state.current_step + 1]

calculate_recommended_areas(state) ==
    LET recommended == SubSeq(AreaCatalog, 1, 6) IN
    [state EXCEPT
        !.recommended_areas = SomeAreas(recommended),
        !.calculated = TRUE,
        !.message = "Based on your preferences, here are " \o ToString(Len(recommended))
                        \o " recommended areas",
        !.current_step = state.current_step + 1]

-----------------------------------------------------------------------------
(* Session store and HTTP handlers *)

SessionIds == {"abc-123"}

\* get_session: creates and stores a fresh state on first access
get_session(store, session_id) ==
    IF session_id \in DOMAIN store THEN store
    ELSE [s \in DOMAIN store \cup {session_id} |->
            IF s = session_id THEN create_propalyst_state(session_id) ELSE store[s]]

update_session_dropped(store, session_id, state) == store

update_session(store, session_id, state) == [store EXCEPT ![session_id] = state]

SlotsOf(state) == [i \in 1..5 |-> state[Slots[i]]]

\* propalyst_chat step 6: every slot "is not None"
Completed(state) == \A i \in 1..5 : ~IsNone(state[Slots[i]])

NoResponse ==
    [status |-> 0, component |-> NoComponent, message |-> "", current_step |-> 0,
     completed |-> FALSE, areas |-> NoAreas]
ErrorResponse(detail) ==
    [status |-> 500, component |-> NoComponent, message |-> detail, current_step |-> 0,
     completed |-> FALSE, areas |-> NoAreas]
ChatResponse(state) ==
    [status |-> 200, component |-> state.component, message |-> state.message,
     current_step |-> state.current_step, completed |-> Completed(state), areas |-> NoAreas]
AreasResponse(state) ==
    [status |-> 200, component |-> NoComponent, message |-> "", current_step |-> 0,
     completed |-> FALSE, areas |-> state.recommended_areas]

HasInput(user_input, field) == user_input # "" /\ field # ""

\* POST /api/propalyst/chat, as <<store', response>>
propalyst_chat(store, session_id, user_input, field, llm) ==
    LET store1 == get_session(store, session_id)
        state == store1[session_id]
        validation == validate_answer_with_llm(field, user_input, llm)
        raises == HasInput(user_input, field) /\ ~validation.haskeys
        answered == IF HasInput(user_input, field)
                    THEN process_user_answer(state, field, user_input, validation)
                    ELSE state
        updated_state == propalyst_graph(answered)
    IN  IF raises
        THEN <<store1, ErrorResponse("Propalyst chat error")>>
        ELSE <<update_session(store1, session_id, updated_state), ChatResponse(updated_state)>>

\* POST /api/propalyst/areas, as <<store', response>>; len(None) raises TypeError
propalyst_areas(store, session_id) ==
    LET store1 == get_session(store, session_id)
        state == store1[session_id]
        updated_state == propalyst_graph(state)
        store2 == IF ~state.calculated
                  THEN update_session(store1, session_id, updated_state)
                  ELSE store1
        final == store2[session_id]
    IN  IF ~final.recommended_areas.some
        THEN <<store2, ErrorResponse("Areas fetch error")>>
        ELSE <<store2, AreasResponse(final)>>

-----------------------------------------------------------------------------
(* Inputs of the chat model *)

MaxTurns == 3

UserText == "whitefield"
ShortMsg == "Try again"
AckMsg == "Great, noted that for your search."
LlmMessages == {ShortMsg, AckMsg}

\* Values the backend may put in extracted_value: null, a falsy value of the
\* field's JSON type, and a proper value.
LlmValues(field) ==
    CASE field = "work_location" -> {NoneV, StrV(""), StrV("Whitefield")}
      [] field = "has_kids" -> {NoneV, BoolV(FALSE), BoolV(TRUE)}
      [] field = "commute_time_max" -> {NoneV, IntV(0), IntV(30)}
      [] field = "property_type" -> {NoneV, StrV(""), StrV("Villa")}
      [] field = "budget_max" -> {NoneV, IntV(0), IntV(80000)}
      [] OTHER -> {NoneV}

LlmBehaviours(field) ==
    {LlmRaises, LlmReplyNoKeys}
        \cup {LlmReply(FALSE, NoneV, m) : m \in LlmMessages}
        \cup {LlmReply(TRUE, v, m) : v \in LlmValues(field), m \in LlmMessages}

UnknownField == "pets"
Fields == SlotNames \cup {UnknownField}

\* Request bodies: an answer for any field, and the shapes without an answer
ChatRequests ==
    {[user_input |-> UserText, field |-> f] : f \in Fields}
        \cup {[user_input |-> "", field |-> ""],
              [user_input |-> UserText, field |-> ""],
              [user_input |-> "", field |-> "has_kids"]}

\* The backend is called only for an answer to a known field
LlmFor(req) ==
    IF HasInput(req.user_input, req.field) /\ req.field \in SlotNames
    THEN LlmBehaviours(req.field)
    ELSE {LlmNotCalled}

AllLlm == {LlmNotCalled} \cup UNION {LlmBehaviours(f) : f \in SlotNames}

NoRequest == [op |-> "none", session_id |-> "", user_input |-> "", field |-> "", llm |-> LlmNotCalled]

-----------------------------------------------------------------------------
(* Actions of the chat model *)

ChatInit ==
    /\ sessions = [s \in {} |-> create_propalyst_state(s)]
    /\ request = NoRequest
    /\ response = NoResponse
    /\ turns = 0

RouteIdle ==
    /\ route_in = create_propalyst_state("")
    /\ route_out = "none"

NodeIdle ==
    /\ node_state = create_propalyst_state("")
    /\ node_prev = create_propalyst_state("")
    /\ node_calls = 0

\* The scorer before score_properties_batch is called
ScoreIdle ==
    /\ properties = <<>>
    /\ batch_size = 10
    /\ prompt_template = [has_property_summary |-> TRUE]
    /\ scored_properties = <<>>
    /\ batch_start = 0
    /\ attempt = 0
    /\ results_left = 0
    /\ backend_response = [kind |-> "none", exception |-> [type |-> "", msg |-> ""], n |-> 0, bad_at |-> 0]
    /\ score_pc = "idle"

\* The streaming endpoint before a request
StreamIdle ==
    /\ stream_log = <<>>
    /\ stream_emitted = 0
    /\ stream_pc = "idle"

\* The persistence service before any call: no data file yet
StoreIdle ==
    /\ data_file = [kind |-> "absent", entries |-> <<>>]
    /\ store_log = <<>>

\* No propalyst_chat coroutine in flight
OverlapIdle ==
    /\ heap = <<>>
    /\ stored = 0
    /\ tasks = <<>>

\* No presenter invoked
AskIdle ==
    /\ ask_state = create_propalyst_state("")
    /\ ask_prev = create_propalyst_state("")
    /\ ask_slots = <<>>

\* The batch endpoint before any request
BatchIdle ==
    /\ batch_call = [op |-> "none"]
    /\ batch_count = 0

ChatStep(limit, requests) ==
    /\ turns < limit
    /\ \E sid \in SessionIds, req \in requests :
            LET r == propalyst_chat(sessions, sid, req.user_input, req.field, req.llm) IN
            /\ sessions' = r[1]
            /\ response' = r[2]
            /\ request' = [op |-> "chat", session_id |-> sid, user_input |-> req.user_input,
                           field |-> req.field, llm |-> req.llm]
    /\ turns' = turns + 1
    /\ UNCHANGED chatFrame

AreasStep(limit) ==
    /\ turns < limit
    /\ \E sid \in SessionIds :
            LET r == propalyst_areas(sessions, sid) IN
            /\ sessions' = r[1]
            /\ response' = r[2]
            /\ request' = [op |-> "areas", session_id |-> sid, user_input |-> "",
                           field |-> "", llm |-> LlmNotCalled]
    /\ turns' = turns + 1
    /\ UNCHANGED chatFrame

\* Any request body, any backend behaviour
Chat ==
    ChatStep(MaxTurns,
             {[user_input |-> req.user_input, field |-> req.field, llm |-> llm] :
                  <<req, llm>> \in {x \in ChatRequests \X AllLlm : x[2] \in LlmFor(x[1])}})

Areas == AreasStep(MaxTurns)

vars == <<sessions, request, response, turns, route_in, route_out, node_state, node_prev, node_calls,
          properties, batch_size, prompt_template, scored_properties, batch_start, attempt,
          results_left, backend_response, score_pc, stream_log, stream_emitted, stream_pc,
          data_file, store_log, heap, stored, tasks, ask_state, ask_prev, ask_slots,
          batch_call, batch_count>>

Init == ChatInit /\ RouteIdle /\ NodeIdle /\ ScoreIdle /\ StreamIdle /\ StoreIdle /\ OverlapIdle /\ AskIdle /\ BatchIdle
Next == Chat \/ Areas
Spec == Init /\ [][Next]_vars

-----------------------------------------------------------------------------
(* Router harness: route_propalyst applied to every assignment of the values   *)
(* process_user_answer can store in a slot (backend values and raw user text). *)

StateWithSlots(a, b, c, d, e) ==
    [create_propalyst_state("abc-123") EXCEPT
        !.work_location = a, !.has_kids = b, !.commute_time_max = c,
        !.property_type = d, !.budget_max = e]

StorableValues(i) == LlmValues(Slots[i]) \cup {StrV(UserText)}

RouteInit ==
    /\ route_in \in {StateWithSlots(a, b, c, d, e) :
                        a \in StorableValues(1), b \in StorableValues(2),
                        c \in StorableValues(3), d \in StorableValues(4),
                        e \in StorableValues(5)}
    /\ route_out = "none"

Route ==
    /\ route_out = "none"
    /\ route_out' = route_propalyst(route_in)
    /\ route_in' = route_in
    /\ UNCHANGED routeFrame

InitRoute == ChatInit /\ RouteInit /\ NodeIdle /\ ScoreIdle /\ StreamIdle /\ StoreIdle /\ OverlapIdle /\ AskIdle /\ BatchIdle
SpecRoute == InitRoute /\ [][Route]_vars

-----------------------------------------------------------------------------
(* Ordered flow: the client answers the slot that is pending, the backend      *)
(* accepts the answer; the session can be driven to completion.                *)

MaxFlowTurns == 6

TheSession == CHOOSE s \in SessionIds : TRUE

PendingFields ==
    LET node == route_propalyst(get_session(sessions, TheSession)[TheSession]) IN
    CASE node = "ask_work_location" -> {"work_location"}
      [] node = "ask_kids" -> {"has_kids"}
      [] node = "ask_commute" -> {"commute_time_max"}
      [] node = "ask_property_type" -> {"property_type"}
      [] node = "ask_budget" -> {"budget_max"}
      [] OTHER -> {}

\* The clarification a validator gives when it rejects an answer for a field
RejectMsg(field) ==
    CASE field = "work_location" ->
            "I don't recognize that area. Try Whitefield, Koramangala or Indiranagar."
      [] field = "has_kids" -> "Sorry, I didn't catch that. Please answer yes or no."
      [] field = "commute_time_max" ->
            "Please tell me your commute time in minutes, for example 30."
      [] field = "property_type" -> "Please choose one of the three property types."
      [] field = "budget_max" -> "Please give a monthly budget between 10000 and 500000."

FlowRequests ==
    {[user_input |-> UserText, field |-> f, llm |-> LlmReply(TRUE, v, AckMsg)] :
        <<f, v>> \in {x \in PendingFields \X UNION {LlmValues(g) : g \in SlotNames} :
                        x[2] \in LlmValues(x[1]) /\ ~IsNone(x[2])}}
        \cup {[user_input |-> UserText, field |-> f,
               llm |-> LlmReply(FALSE, NoneV, RejectMsg(f))] : f \in PendingFields}
        \cup {[user_input |-> "", field |-> "", llm |-> LlmNotCalled]}

ChatFlow == ChatStep(MaxFlowTurns, FlowRequests)
AreasFlow == AreasStep(MaxFlowTurns)

NextFlow == ChatFlow \/ AreasFlow
SpecFlow == Init /\ [][NextFlow]_vars

-----------------------------------------------------------------------------
(* Area-node harness: calculate_recommended_areas applied repeatedly to the    *)
(* state of a completed session.                                               *)

MaxCalls == 2

CompletedInputs ==
    {[StateWithSlots(a, b, c, d, e) EXCEPT
          !.current_step = 5, !.component = UIComponent("Slider", "budget_max"), !.message = m] :
        a \in {StrV("Whitefield"), StrV(UserText)},
        b \in {BoolV(FALSE), BoolV(TRUE)},
        c \in {IntV(30), StrV(UserText)},
        d \in {StrV("Villa"), StrV(UserText)},
        e \in {IntV(80000), StrV(UserText)},
        m \in {AckMsg, FallbackMessage}}

NodeInit ==
    /\ node_state \in CompletedInputs
    /\ node_prev = node_state
    /\ node_calls = 0

CalculateAreas ==
    /\ node_calls < MaxCalls
    /\ node_prev' = node_state
    /\ node_state' = calculate_recommended_areas(node_state)
    /\ node_calls' = node_calls + 1
    /\ UNCHANGED nodeFrame

InitNode == ChatInit /\ RouteIdle /\ NodeInit /\ ScoreIdle /\ StreamIdle /\ StoreIdle /\ OverlapIdle /\ AskIdle /\ BatchIdle
SpecNode == InitNode /\ [][CalculateAreas]_vars

-----------------------------------------------------------------------------
(* Batch relevance scorer: services/relevance_scoring_service.py *)

\* A dict key that is absent (dict.get then yields its default)
Missing == [k |-> "missing", n |-> 0, s |-> ""]
\* A JSON array of strings
ListV(l) == [k |-> "list", n |-> 0, s |-> "", l |-> l]

max_retries == 3

\* sep.join(parts)
RECURSIVE Join(_, _)
Join(sep, parts) ==
    IF parts = <<>> THEN ""
    ELSE IF Len(parts) = 1 THEN parts[1]
    ELSE parts[1] \o sep \o Join(sep, Tail(parts))

\* A record as the scraper hands it over: not scored yet.  id stands for the
\* scraped fields (title, location, price, ...) that tell the records apart.
ScrapedProperty(id, description) ==
    [id |-> id, description |-> description,
     relevance_score |-> Missing, relevance_reason |-> Missing,
     matches |-> Missing, mismatches |-> Missing]

\* properties[i:i + batch_size] for batch_size > 0, as the (1-based) indexes of
\* the dicts it selects: the slice is a new list of the same dict objects.
BatchSlice(props, i, size) ==
    LET hi == IF i + size < Len(props) THEN i + size ELSE Len(props) IN
    [k \in 1..(IF hi > i THEN hi - i ELSE 0) |-> i + k]

\* Building the batch prompt, which happens before the try block.
\*  - prop.get("description", "")[:500] raises TypeError when the record
\*    carries description = None;
\*  - str.replace puts the JSON dump of the summaries where the template has
\*    {property_summary}, and str.format then parses the result: the braces of
\*    the dumped JSON objects are read as replacement fields and raise KeyError.
PromptConstructionRaises(props, batch, template) ==
    \/ \E k \in 1..Len(batch) : props[batch[k]].description = NoneV
    \/ template.has_property_summary /\ Len(batch) > 0

\* The for-prop-in-properties loops of the handlers
DefaultScoresUnscoredOnly(props, batch, reason) ==
    [p \in 1..Len(props) |->
        IF (\E k \in 1..Len(batch) : batch[k] = p) /\ props[p].relevance_score = Missing
        THEN [props[p] EXCEPT !.relevance_score = IntV(5), !.relevance_reason = StrV(reason)]
        ELSE props[p]]

DefaultScores(props, batch, reason) ==
    [p \in 1..Len(props) |->
        IF \E k \in 1..Len(batch) : batch[k] = p
        THEN [props[p] EXCEPT !.relevance_score = IntV(5), !.relevance_reason = StrV(reason)]
        ELSE props[p]]

\* One element of the parsed response array
NonDict == [isdict |-> FALSE, property_id |-> Missing, relevance_score |-> Missing,
            relevance_reason |-> Missing, matches |-> Missing, mismatches |-> Missing]
ResultDict(property_id, relevance_score, relevance_reason, matches, mismatches) ==
    [isdict |-> TRUE, property_id |-> property_id, relevance_score |-> relevance_score,
     relevance_reason |-> relevance_reason, matches |-> matches, mismatches |-> mismatches]

\* dict.get(key) / dict.get(key, default)
Get(v, default) == IF v = Missing THEN default ELSE v

\* isinstance(x, int): bool is a subclass of int
IsInt(v) == v.k \in {"int", "bool"}

\* score = result.get("relevance_score", 5), replaced by 5 unless an int in 1..10
ValidatedScore(result) ==
    LET score == Get(result.relevance_score, IntV(5)) IN
    IF ~IsInt(score) \/ score.n < 1 \/ score.n > 10 THEN IntV(5) ELSE score

\* Mapping one element raises: .get on a non-dict (AttributeError), or
\* 0 <= prop_id on a property_id that is absent, null or a string (TypeError)
ResultRaises(result) ==
    \/ ~result.isdict
    \/ ~IsInt(Get(result.property_id, NoneV))

\* The relevance_reason the mapping stores
ReasonOf(result) ==
    IF result.relevance_reason # Missing THEN result.relevance_reason
    ELSE IF result.matches # Missing \/ result.mismatches # Missing THEN
        LET matches == Get(result.matches, ListV(<<>>)).l
            mismatches == Get(result.mismatches, ListV(<<>>)).l
            reason_parts ==
                (IF matches # <<>> THEN <<"Matches: " \o Join("; ", matches)>> ELSE <<>>)
                \o (IF mismatches # <<>> THEN <<"Mismatches: " \o Join("; ", mismatches)>> ELSE <<>>)
        IN StrV(IF reason_parts # <<>> THEN Join(". ", reason_parts) ELSE "")
    ELSE StrV("")

\* The body of "for result in scoring_results" for an element that does not raise
MapResult(props, batch, result) ==
    LET prop_id == result.property_id.n IN
    IF 0 <= prop_id /\ prop_id < Len(batch) THEN
        LET p == batch[prop_id + 1]
            structured == result.relevance_reason = Missing
                          /\ (result.matches # Missing \/ result.mismatches # Missing)
        IN [props EXCEPT
               ![p].relevance_score = ValidatedScore(result),
               ![p].relevance_reason = ReasonOf(result),
               ![p].matches = IF structured THEN Get(result.matches, ListV(<<>>)) ELSE @,
               ![p].mismatches = IF structured THEN Get(result.mismatches, ListV(<<>>)) ELSE @]
    ELSE props

\* An exception as the handler sees it: type(e).__name__ and str(e)
PyException(type, msg) == [type |-> type, msg |-> msg]
NoException == PyException("", "")

\* "ResourceExhausted" in error_type or "429" in error_msg or "quota" in error_msg.lower()
IsRateLimit(e) ==
    \/ Contains(e.type, "ResourceExhausted")
    \/ Contains(e.msg, "429")
    \/ Contains(Lower(e.msg), "quota")

\* What mapping a raising element throws
ExceptionOf(result) ==
    IF ~result.isdict
    THEN PyException("AttributeError", "'int' object has no attribute 'get'")
    ELSE PyException("TypeError", "'<=' not supported between int and " \o
                     (IF Get(result.property_id, NoneV) = NoneV THEN "NoneType" ELSE "str"))

\* What one backend call does: generate_content raises, or its text (after the
\* code fences are stripped) is not JSON, is JSON but not an array, or is an
\* array of n elements of which element bad_at is the first whose mapping
\* raises (0: none does).
NoResponseYet == [kind |-> "none", exception |-> NoException, n |-> 0, bad_at |-> 0]
BackendRaises(e) == [kind |-> "raises", exception |-> e, n |-> 0, bad_at |-> 0]
BackendMalformed == [kind |-> "malformed", exception |-> NoException, n |-> 0, bad_at |-> 0]
BackendNonArray == [kind |-> "non_array", exception |-> NoException, n |-> 0, bad_at |-> 0]
BackendArray(n, bad_at) == [kind |-> "array", exception |-> NoException, n |-> n, bad_at |-> bad_at]

\* The batch _score_batch is working on
Batch == BatchSlice(properties, batch_start, batch_size)

\* "return properties" in _score_batch, then scored_properties.extend(scored_batch)
ReturnBatch(props) ==
    /\ properties' = props
    /\ scored_properties' = scored_properties \o Batch
    /\ batch_start' = batch_start + batch_size
    /\ attempt' = attempt
    /\ results_left' = 0
    /\ score_pc' = "loop"

\* except json.JSONDecodeError
HandleJSONDecodeError ==
    ReturnBatch(DefaultScores(properties, Batch, "Batch scoring failed: JSON error"))

\* A handler that retries after any exception while attempts remain
HandleExceptionRetryAll(e) ==
    IF attempt < max_retries - 1
    THEN /\ attempt' = attempt + 1
         /\ results_left' = 0
         /\ score_pc' = "call"
         /\ UNCHANGED <<properties, scored_properties, batch_start>>
    ELSE ReturnBatch(DefaultScores(properties, Batch,
                                   IF IsRateLimit(e) THEN "API rate limit exceeded"
                                   ELSE "Batch scoring error"))

\* except Exception: retry on a rate-limit signature while attempts remain.
\* (The fallback after the for loop is not reachable: the last attempt returns.)
HandleException(e) ==
    IF IsRateLimit(e) THEN
        IF attempt < max_retries - 1
        THEN /\ attempt' = attempt + 1
             /\ results_left' = 0
             /\ score_pc' = "call"
             /\ UNCHANGED <<properties, scored_properties, batch_start>>
        ELSE ReturnBatch(DefaultScores(properties, Batch, "API rate limit exceeded"))
    ELSE ReturnBatch(DefaultScores(properties, Batch, "Batch scoring error"))

(* Inputs of the scorer *)

MaxProps == 2
MaxBatch == 2
MaxResults == 2

\* description is a string, or null where the page had none
Descriptions == {StrV("2 BHK flat near metro"), NoneV}

RECURSIVE PropertyLists(_)
PropertyLists(n) ==
    IF n = 0 THEN {<<>>}
    ELSE {Append(l, ScrapedProperty(n, d)) : l \in PropertyLists(n - 1), d \in Descriptions}

\* batch_size is an int the caller chooses; the endpoint does not constrain it
BatchSizes == (-1)..MaxBatch

\* The prompt file either holds the {property_summary} placeholder or not
PromptTemplates == {[has_property_summary |-> b] : b \in BOOLEAN}

BackendExceptions ==
    {PyException("ResourceExhausted", "429 Resource has been exhausted"),
     PyException("TooManyRequests", "Quota exceeded for this minute"),
     PyException("InternalServerError", "500 internal error"),
     PyException("ValueError", "response has no text part")}

\* The ValueError("Expected JSON array response") of the isinstance check
NotAListError == PyException("ValueError", "Expected JSON array response")

BackendResponses ==
    {BackendRaises(e) : e \in BackendExceptions}
    \cup {BackendMalformed, BackendNonArray}
    \cup {BackendArray(n, b) : n \in 0..MaxResults, b \in 0..MaxResults}

\* What a response element can say about a property: a valid score with a
\* reason, the structured form, and scores that are out of range, not an
\* integer, or absent
ResultPayloads ==
    {<<IntV(7), StrV("Matches the query"), Missing, Missing>>,
     <<IntV(9), Missing, ListV(<<"3 BHK">>), ListV(<<"No parking">>)>>,
     <<IntV(11), StrV("Matches the query"), Missing, Missing>>,
     <<StrV("high"), Missing, Missing, Missing>>,
     <<Missing, Missing, Missing, Missing>>}

\* Elements a response array for a batch of n can hold: any payload under a
\* property_id in or out of range, and elements whose mapping raises
ResultItems(n) ==
    {ResultDict(IntV(i), pl[1], pl[2], pl[3], pl[4]) : i \in (-1)..n, pl \in ResultPayloads}
    \cup {ResultDict(pid, IntV(7), StrV("Matches the query"), Missing, Missing) :
              pid \in {NoneV, Missing, StrV("0")}}
    \cup {NonDict}

(* score_properties_batch, step by step *)

ScoreInit ==
    /\ properties \in UNION {PropertyLists(n) : n \in 0..MaxProps}
    /\ batch_size \in BatchSizes
    /\ prompt_template \in PromptTemplates
    /\ scored_properties = <<>>
    /\ batch_start = 0
    /\ attempt = 0
    /\ results_left = 0
    /\ backend_response = NoResponseYet
    /\ score_pc = "loop"

\* range(0, len(properties), batch_size) with batch_size = 0: ValueError
RangeRaises ==
    /\ score_pc = "loop"
    /\ batch_size = 0
    /\ score_pc' = "raised"
    /\ UNCHANGED <<properties, batch_size, prompt_template, scored_properties,
                   batch_start, attempt, results_left, backend_response>>
    /\ UNCHANGED scoreFrame

\* The next iteration of the batch loop enters _score_batch and builds the prompt
StartBatch ==
    /\ score_pc = "loop"
    /\ batch_size > 0
    /\ batch_start < Len(properties)
    /\ IF PromptConstructionRaises(properties, Batch, prompt_template)
       THEN /\ score_pc' = "raised"
            /\ UNCHANGED <<attempt, backend_response>>
       ELSE /\ score_pc' = "call"
            /\ attempt' = 0
            /\ backend_response' = NoResponseYet
    /\ UNCHANGED <<properties, batch_size, prompt_template, scored_properties,
                   batch_start, results_left>>
    /\ UNCHANGED scoreFrame

\* The range is exhausted (at once for a negative batch_size): return scored_properties
ReturnScored ==
    /\ score_pc = "loop"
    /\ \/ batch_size < 0
       \/ batch_size > 0 /\ batch_start >= Len(properties)
    /\ score_pc' = "done"
    /\ UNCHANGED <<properties, batch_size, prompt_template, scored_properties,
                   batch_start, attempt, results_left, backend_response>>
    /\ UNCHANGED scoreFrame

\* One attempt: the backend call, fence stripping, json.loads, the list check
CallBackend ==
    /\ score_pc = "call"
    /\ \E resp \in BackendResponses :
        /\ resp.bad_at <= resp.n
        /\ backend_response' = resp
        /\ CASE resp.kind = "raises" -> HandleException(resp.exception)
             [] resp.kind = "malformed" -> HandleJSONDecodeError
             [] resp.kind = "non_array" -> HandleException(NotAListError)
             [] resp.kind = "array" ->
                    /\ results_left' = resp.n
                    /\ score_pc' = "map"
                    /\ UNCHANGED <<properties, scored_properties, batch_start, attempt>>
    /\ UNCHANGED <<batch_size, prompt_template>>
    /\ UNCHANGED scoreFrame

\* One iteration of "for result in scoring_results"
MapNextResult ==
    /\ score_pc = "map"
    /\ results_left > 0
    /\ LET resp == backend_response
           pos == resp.n - results_left + 1
       IN \E result \in ResultItems(Len(Batch)) :
            /\ ResultRaises(result) <=> (pos = resp.bad_at)
            /\ IF ResultRaises(result)
               THEN HandleException(ExceptionOf(result))
               ELSE /\ properties' = MapResult(properties, Batch, result)
                    /\ results_left' = results_left - 1
                    /\ UNCHANGED <<scored_properties, batch_start, attempt, score_pc>>
    /\ UNCHANGED <<batch_size, prompt_template, backend_response>>
    /\ UNCHANGED scoreFrame

\* The array is exhausted: return properties
MapDone ==
    /\ score_pc = "map"
    /\ results_left = 0
    /\ ReturnBatch(properties)
    /\ UNCHANGED <<batch_size, prompt_template, backend_response>>
    /\ UNCHANGED scoreFrame

NextScore ==
    \/ RangeRaises \/ StartBatch \/ ReturnScored
    \/ CallBackend \/ MapNextResult \/ MapDone

InitScore == ChatInit /\ RouteIdle /\ NodeIdle /\ ScoreInit /\ StreamIdle /\ StoreIdle /\ OverlapIdle /\ AskIdle /\ BatchIdle
SpecScore == InitScore /\ [][NextScore]_vars

-----------------------------------------------------------------------------
(* Streaming endpoint: routers/scraping_router.py, get_listing_details *)

\* batch_size of generate_sse_events
stream_batch_size == 10

MaxScraped == 11

\* The scraped records: any number of them, of which at most one has a null
\* description
StreamInputs ==
    UNION {{[k \in 1..n |-> ScrapedProperty(k, IF k = bad THEN NoneV
                                                ELSE StrV("2 BHK flat near metro"))] :
                bad \in 0..n} : n \in 0..MaxScraped}

\* Entries of the log: a backend call made for the batch starting at i, and
\* the server-sent events (a property event is its two yields, "event:" and "data:")
BackendCallEntry(i) == [kind |-> "backend_call", at |-> i, data |-> 0]
PropertyEvent(p) == [kind |-> "property", at |-> 0, data |-> p]
CompleteEvent(count) == [kind |-> "complete", at |-> 0, data |-> count]
ErrorEvent == [kind |-> "error", at |-> 0, data |-> 0]

\* properties_data[i:i + batch_size]
StreamBatch == BatchSlice(properties, batch_start, stream_batch_size)

StreamInit ==
    /\ properties \in StreamInputs
    /\ prompt_template \in PromptTemplates
    /\ batch_size = stream_batch_size
    /\ scored_properties = <<>>
    /\ batch_start = 0
    /\ attempt = 0
    /\ results_left = 0
    /\ backend_response = NoResponseYet
    /\ score_pc = "idle"
    /\ stream_log = <<>>
    /\ stream_emitted = 0
    /\ stream_pc = "loop"

streamFrame == <<chatVars, routeVars, nodeVars, storeVars, overlapVars, askVars, batchVars,
                 properties, prompt_template,
                 batch_size, scored_properties, attempt, results_left, backend_response,
                 score_pc>>

\* await scoring_service._score_batch(batch, orig_query): it raises while it
\* builds the prompt, which the generator turns into an error event, or it
\* makes one to max_retries backend calls and returns the batch
StreamScoreBatch ==
    /\ stream_pc = "loop"
    /\ batch_start < Len(properties)
    /\ IF PromptConstructionRaises(properties, StreamBatch, prompt_template)
       THEN /\ stream_log' = Append(stream_log, ErrorEvent)
            /\ stream_pc' = "closed"
       ELSE \E calls \in 1..max_retries :
            /\ stream_log' = stream_log \o [c \in 1..calls |-> BackendCallEntry(batch_start)]
            /\ stream_pc' = "emit"
    /\ UNCHANGED <<batch_start, stream_emitted>>
    /\ UNCHANGED streamFrame

\* for scored_property in scored_batch: yield the property event; after the
\* last one the batch loop goes on
StreamYieldProperty ==
    /\ stream_pc = "emit"
    /\ stream_emitted < Len(StreamBatch)
    /\ stream_log' = Append(stream_log, PropertyEvent(StreamBatch[stream_emitted + 1]))
    /\ IF stream_emitted + 1 = Len(StreamBatch)
       THEN /\ stream_emitted' = 0
            /\ batch_start' = batch_start + stream_batch_size
            /\ stream_pc' = "loop"
       ELSE /\ stream_emitted' = stream_emitted + 1
            /\ UNCHANGED <<batch_start, stream_pc>>
    /\ UNCHANGED streamFrame

\* After the loop: the completion event
StreamComplete ==
    /\ stream_pc = "loop"
    /\ batch_start >= Len(properties)
    /\ stream_log' = Append(stream_log, CompleteEvent(Len(properties)))
    /\ stream_pc' = "closed"
    /\ UNCHANGED <<batch_start, stream_emitted>>
    /\ UNCHANGED streamFrame

NextStream == StreamScoreBatch \/ StreamYieldProperty \/ StreamComplete

InitStream == ChatInit /\ RouteIdle /\ NodeIdle /\ StreamInit /\ StoreIdle /\ OverlapIdle /\ AskIdle /\ BatchIdle
SpecStream == InitStream /\ [][NextStream]_vars

-----------------------------------------------------------------------------
(* Persistence: services/data_persistence_service.py *)

\* json.dump / json.load of one value.  A JSON value is a tagged record of its
\* own; a dict key that is absent is a member that is omitted.
JsonValue(v) ==
    CASE v.k = "none" -> [t |-> "null", n |-> 0, s |-> "", a |-> <<>>]
      [] v.k = "bool" -> [t |-> IF v.n = 1 THEN "true" ELSE "false", n |-> 0, s |-> "", a |-> <<>>]
      [] v.k = "int" -> [t |-> "number", n |-> v.n, s |-> "", a |-> <<>>]
      [] v.k = "str" -> [t |-> "string", n |-> 0, s |-> v.s, a |-> <<>>]
      [] v.k = "list" -> [t |-> "array", n |-> 0, s |-> "", a |-> v.l]
      [] v.k = "missing" -> [t |-> "omitted", n |-> 0, s |-> "", a |-> <<>>]

PyValue(j) ==
    CASE j.t = "null" -> NoneV
      [] j.t = "true" -> BoolV(TRUE)
      [] j.t = "false" -> BoolV(FALSE)
      [] j.t = "number" -> IntV(j.n)
      [] j.t = "string" -> StrV(j.s)
      [] j.t = "array" -> ListV(j.a)
      [] j.t = "omitted" -> Missing

\* A property dict as a JSON object and back
JsonRecord(r) ==
    [id |-> r.id, description |-> JsonValue(r.description),
     relevance_score |-> JsonValue(r.relevance_score),
     relevance_reason |-> JsonValue(r.relevance_reason),
     matches |-> JsonValue(r.matches), mismatches |-> JsonValue(r.mismatches)]

PyRecord(j) ==
    [id |-> j.id, description |-> PyValue(j.description),
     relevance_score |-> PyValue(j.relevance_score),
     relevance_reason |-> PyValue(j.relevance_reason),
     matches |-> PyValue(j.matches), mismatches |-> PyValue(j.mismatches)]

\* An entry of the array: {"type", "source_url", "scraped_at", "data"}.
\* source_url is a value, since a migrated entry may lack the key; has_data
\* tells whether the "data" key is there.
Entry(type, source_url, scraped_at, has_data, data) ==
    [type |-> type, source_url |-> source_url, scraped_at |-> scraped_at,
     has_data |-> has_data, data |-> data]

JsonEntry(e) ==
    [e EXCEPT !.source_url = JsonValue(e.source_url),
              !.data = [i \in 1..Len(e.data) |-> JsonRecord(e.data[i])]]

PyEntry(j) ==
    [j EXCEPT !.source_url = PyValue(j.source_url),
              !.data = [i \in 1..Len(j.data) |-> PyRecord(j.data[i])]]

\* The data file: absent, a JSON array of entries, an object keyed by URL (the
\* old format, entries then holds its members in file order), JSON of another
\* type, or text that is not JSON
NoFile == [kind |-> "absent", entries |-> <<>>]
ArrayFile(entries) == [kind |-> "array", entries |-> entries]
ObjectFile(members) == [kind |-> "object", entries |-> members]

\* A member of the old keyed object: url -> a bare list of records, or a dict
\* (an entry with whatever keys it has), or something else
OldList(url, records) ==
    [key |-> url, shape |-> "list", records |-> records,
     entry |-> JsonEntry(Entry("", Missing, 0, FALSE, <<>>))]
OldDict(url, entry) ==
    [key |-> url, shape |-> "dict", records |-> <<>>, entry |-> entry]
OldOther(url) ==
    [key |-> url, shape |-> "other", records |-> <<>>,
     entry |-> JsonEntry(Entry("", Missing, 0, FALSE, <<>>))]

\* _migrate_old_format: a dict that has "data" is taken over as it is, a bare
\* list is wrapped, anything else is dropped
RECURSIVE _migrate_old_format(_, _)
_migrate_old_format(old_data, now) ==
    IF old_data = <<>> THEN <<>>
    ELSE LET m == Head(old_data)
             rest == _migrate_old_format(Tail(old_data), now)
         IN IF m.shape = "dict" /\ m.entry.has_data THEN <<PyEntry(m.entry)>> \o rest
            ELSE IF m.shape = "list"
                 THEN <<Entry("unknown", StrV(m.key), now, TRUE,
                              [i \in 1..Len(m.records) |-> PyRecord(m.records[i])])>> \o rest
                 ELSE rest

\* _load_existing_data: [] unless the file exists and parses to a list or a dict
_load_existing_data(file, now) ==
    CASE file.kind = "array" -> [i \in 1..Len(file.entries) |-> PyEntry(file.entries[i])]
      [] file.kind = "object" -> _migrate_old_format(file.entries, now)
      [] OTHER -> <<>>

\* _save_data
_save_data(data) == ArrayFile([i \in 1..Len(data) |-> JsonEntry(data[i])])

\* [entry for entry in all_data if entry.get("source_url") != url]
WithoutUrl(all_data, url) == SelectSeq(all_data, LAMBDA entry : entry.source_url # StrV(url))

\* save_scraped_properties: <<file afterwards, result>>
save_scraped_properties_appending(file, url, props, merge, source, now) ==
    LET all_data == IF merge THEN _load_existing_data(file, now) ELSE <<>>
        saved == Append(all_data, Entry(source, StrV(url), now, TRUE, props))
    IN <<_save_data(saved), [success |-> TRUE, found |-> FALSE, result |-> <<>>]>>

save_scraped_properties_merging(file, url, props, merge, source, now) ==
    LET all_data == IF merge THEN _load_existing_data(file, now) ELSE <<>>
        hits == SelectSeq(all_data, LAMBDA entry : entry.source_url = StrV(url))
        earlier == IF hits # <<>> THEN hits[1].data ELSE <<>>
        saved == Append(WithoutUrl(all_data, url),
                        Entry(source, StrV(url), now, TRUE, earlier \o props))
    IN <<_save_data(saved), [success |-> TRUE, found |-> FALSE, result |-> <<>>]>>

save_scraped_properties(file, url, props, merge, source, now) ==
    LET all_data == IF merge THEN _load_existing_data(file, now) ELSE <<>>
        property_entry == Entry(source, StrV(url), now, TRUE, props)
        saved == Append(WithoutUrl(all_data, url), property_entry)
    IN <<_save_data(saved), [success |-> TRUE, found |-> FALSE, result |-> <<>>]>>

\* get_properties_by_url: the data of the first entry of that URL (found), or None
get_properties_by_url_falsy(file, url, now) ==
    LET data == _load_existing_data(file, now)
        hits == SelectSeq(data, LAMBDA entry : entry.source_url = StrV(url))
    IN IF hits # <<>> /\ hits[1].has_data /\ hits[1].data # <<>>
       THEN [success |-> TRUE, found |-> TRUE, result |-> hits[1].data]
       ELSE [success |-> TRUE, found |-> FALSE, result |-> <<>>]

get_properties_by_url(file, url, now) ==
    LET data == _load_existing_data(file, now)
        hits == SelectSeq(data, LAMBDA entry : entry.source_url = StrV(url))
    IN IF hits # <<>>
       THEN [success |-> TRUE, found |-> TRUE,
             result |-> IF hits[1].has_data THEN hits[1].data ELSE <<>>]
       ELSE [success |-> TRUE, found |-> FALSE, result |-> <<>>]

\* delete_properties_by_url: <<file afterwards, result>>
delete_properties_by_url(file, url, now) ==
    LET data == _load_existing_data(file, now)
        kept == WithoutUrl(data, url)
    IN IF Len(kept) = Len(data)
       THEN <<file, [success |-> FALSE, found |-> FALSE, result |-> <<>>]>>
       ELSE <<_save_data(kept), [success |-> TRUE, found |-> TRUE, result |-> <<>>]>>

\* clear_all_data
clear_all_data(file) == <<_save_data(<<>>), [success |-> TRUE, found |-> FALSE, result |-> <<>>]>>

(* Calls of the persistence service *)

MaxStoreCalls == 3
MaxMigrateCalls == 1

URLs == {"sq/indiranagar", "sq/whitefield"}

\* Scored records as the batch endpoint hands them to save
ScoredRecord1 ==
    [ScrapedProperty(1, StrV("2 BHK flat near metro")) EXCEPT
        !.relevance_score = IntV(7), !.relevance_reason = StrV("Matches the query")]
ScoredRecord2 ==
    [ScrapedProperty(2, NoneV) EXCEPT
        !.relevance_score = IntV(5), !.relevance_reason = StrV(""),
        !.matches = ListV(<<"3 BHK">>), !.mismatches = ListV(<<>>)]
RecordLists == {<<>>, <<ScoredRecord1>>, <<ScoredRecord2>>, <<ScoredRecord1, ScoredRecord2>>}

\* A call and its result, as the log keeps it
StoreCall(op, url, props, merge, res) ==
    [op |-> op, url |-> url, properties |-> props, merge |-> merge,
     success |-> res.success, found |-> res.found, result |-> res.result]

\* datetime.now(): the calls are told apart by their number
Now == Len(store_log) + 1

storeFrame == <<chatVars, routeVars, nodeVars, scoreVars, streamVars, overlapVars, askVars, batchVars>>

Save(limit) ==
    /\ Len(store_log) < limit
    /\ \E url \in URLs, props \in RecordLists, merge \in BOOLEAN :
        LET r == save_scraped_properties(data_file, url, props, merge, "squareyards", Now) IN
        /\ data_file' = r[1]
        /\ store_log' = Append(store_log, StoreCall("save", url, props, merge, r[2]))
    /\ UNCHANGED storeFrame

Load(limit) ==
    /\ Len(store_log) < limit
    /\ \E url \in URLs :
        /\ store_log' = Append(store_log,
               StoreCall("load", url, <<>>, TRUE, get_properties_by_url(data_file, url, Now)))
    /\ UNCHANGED data_file
    /\ UNCHANGED storeFrame

Delete(limit) ==
    /\ Len(store_log) < limit
    /\ \E url \in URLs :
        LET r == delete_properties_by_url(data_file, url, Now) IN
        /\ data_file' = r[1]
        /\ store_log' = Append(store_log, StoreCall("delete", url, <<>>, TRUE, r[2]))
    /\ UNCHANGED storeFrame

Clear(limit) ==
    /\ Len(store_log) < limit
    /\ LET r == clear_all_data(data_file) IN
        /\ data_file' = r[1]
        /\ store_log' = Append(store_log, StoreCall("clear", "", <<>>, TRUE, r[2]))
    /\ UNCHANGED storeFrame

\* get_all_data: the entries _load_existing_data yields
GetAll(limit) ==
    /\ Len(store_log) < limit
    /\ store_log' = Append(store_log,
           StoreCall("get_all", "", <<>>, TRUE,
                     [success |-> TRUE, found |-> TRUE,
                      result |-> _load_existing_data(data_file, Now)]))
    /\ UNCHANGED data_file
    /\ UNCHANGED storeFrame

NextStore ==
    \/ Save(MaxStoreCalls) \/ Load(MaxStoreCalls) \/ Delete(MaxStoreCalls)
    \/ Clear(MaxStoreCalls) \/ GetAll(MaxStoreCalls)

\* From an empty store
SpecStore == Init /\ [][NextStore]_vars

\* Stores left behind in the old keyed format: for each URL no member, a bare
\* list of records, a dict wrapping them (with or without its own source_url
\* and data keys), or something else
OldMembers(url) ==
    {OldList(url, [i \in 1..Len(l) |-> JsonRecord(l[i])]) : l \in RecordLists}
    \cup {OldDict(url, JsonEntry(Entry("squareyards", src, 0, has_data, l))) :
              src \in {StrV(url), Missing}, has_data \in BOOLEAN,
              l \in {<<>>, <<ScoredRecord1, ScoredRecord2>>}}
    \cup {OldOther(url)}

OldFiles ==
    {ObjectFile(<<>>)}
    \cup {ObjectFile(<<m>>) : m \in UNION {OldMembers(u) : u \in URLs}}
    \cup {ObjectFile(<<m1, m2>>) : m1 \in OldMembers("sq/indiranagar"),
                                    m2 \in OldMembers("sq/whitefield")}

MigrateInit ==
    /\ data_file \in OldFiles
    /\ store_log = <<>>

NextMigrate ==
    \/ Save(MaxMigrateCalls) \/ Load(MaxMigrateCalls) \/ Delete(MaxMigrateCalls)
    \/ Clear(MaxMigrateCalls) \/ GetAll(MaxMigrateCalls)

InitMigrate == ChatInit /\ RouteIdle /\ NodeIdle /\ ScoreIdle /\ StreamIdle /\ MigrateInit /\ OverlapIdle /\ AskIdle /\ BatchIdle
SpecMigrate == InitMigrate /\ [][NextMigrate]_vars

-----------------------------------------------------------------------------
(* Vocabulary of the properties *)

AskNodes == <<"ask_work_location", "ask_kids", "ask_commute", "ask_property_type", "ask_budget">>

\* A slot is filled when it holds an answer: has_kids when it is not None
\* (False is an answer), the others when they are non-empty.
Filled(state, i) ==
    IF Slots[i] = "has_kids" THEN ~IsNone(state[Slots[i]]) ELSE Truthy(state[Slots[i]])

AllFilled(state) == \A i \in 1..5 : Filled(state, i)

FirstEmpty(state) ==
    CHOOSE i \in 1..5 : ~Filled(state, i) /\ \A j \in 1..(i - 1) : Filled(state, j)

IndexOf(field) == CHOOSE i \in 1..5 : Slots[i] = field

\* The component a question for slot i carries (the free-text slot has none)
ComponentFor(i) ==
    CASE i = 1 -> NoComponent
      [] i \in {2, 3, 4} -> UIComponent("ButtonGroup", Slots[i])
      [] i = 5 -> UIComponent("Slider", Slots[i])

\* The session the last request was about
Current == sessions[request.session_id]

ChatAnswered ==
    /\ request.op = "chat"
    /\ HasInput(request.user_input, request.field)

-----------------------------------------------------------------------------
(* C1 *)

\* C1 (as stated): route_propalyst returns the ask-action of the first unfilled
\* slot, and returns "end" if and only if all five slots are non-null.
C1_Original ==
    route_out # "none" =>
        /\ ~AllFilled(route_in) => route_out = AskNodes[FirstEmpty(route_in)]
        /\ route_out = "end" <=> Completed(route_in)

\* C1 (amended): route_propalyst returns the ask-action of the first unfilled
\* slot in the fixed order, and returns "end" if and only if all five slots are
\* filled, where work_location, commute_time_max, property_type and budget_max
\* count as filled when truthy (not None, "", 0) and has_kids when not None.
C1_Route ==
    route_out # "none" =>
        /\ ~AllFilled(route_in) => route_out = AskNodes[FirstEmpty(route_in)]
        /\ route_out = "end" <=> AllFilled(route_in)

C1_Witness ==
    /\ route_out = "ask_commute"
    /\ route_in.has_kids = BoolV(FALSE)
    /\ route_in.commute_time_max = IntV(0)
    /\ Completed(route_in)

-----------------------------------------------------------------------------
(* C2 *)

\* C2: after every chat turn that leaves some slot unfilled, the question
\* presented (current_step and the component's field, in the stored state and in
\* the response) is the one for the first unfilled slot in the fixed order.
C2_AsksFirstEmpty ==
    (request.op = "chat" /\ response.status = 200 /\ ~AllFilled(Current)) =>
        LET i == FirstEmpty(Current) IN
        /\ Current.current_step = i
        /\ Current.component = ComponentFor(i)
        /\ response.current_step = i
        /\ response.component = ComponentFor(i)

C2_Witness ==
    /\ request.op = "chat"
    /\ response.status = 200
    /\ Current.has_kids = BoolV(FALSE)
    /\ response.current_step = 3
    /\ response.component = UIComponent("ButtonGroup", "commute_time_max")

-----------------------------------------------------------------------------
(* C3 *)

\* C3: in every reachable session state the filled slots form a prefix of the
\* fixed order (slot k filled implies slots 1..k-1 filled).
C3_FilledPrefix ==
    \A sid \in DOMAIN sessions :
        \A k \in 1..5 :
            Filled(sessions[sid], k) => \A j \in 1..(k - 1) : Filled(sessions[sid], j)

-----------------------------------------------------------------------------
(* C4 *)

PreState == get_session(sessions, request'.session_id)[request'.session_id]
PostState == sessions'[request'.session_id]

RejectedTurn ==
    /\ turns' = turns + 1
    /\ request'.op = "chat"
    /\ HasInput(request'.user_input, request'.field)
    /\ response'.status = 200
    /\ ~validate_answer_with_llm(request'.field, request'.user_input, request'.llm).valid

Surfaced(message, text) ==
    text # "" /\ (message = text \/ Contains(message, text \o "|||"))

\* C4: when the validator rejects an answer, every slot keeps its value, the
\* answer adds neither the user's text nor an acknowledgment to the messages log,
\* error is set, the validator's message is surfaced in the response, and the
\* question presented is for the same slot as before.
C4_Rejection ==
    [][RejectedTurn =>
        /\ SlotsOf(PostState) = SlotsOf(PreState)
        /\ \/ PostState.messages = PreState.messages
           \/ /\ Len(PostState.messages) = Len(PreState.messages) + 1
              /\ SubSeq(PostState.messages, 1, Len(PreState.messages)) = PreState.messages
              /\ PostState.messages[Len(PostState.messages)].role = "agent"
        /\ PostState.error = InvalidError
        /\ Surfaced(response'.message,
                    validate_answer_with_llm(request'.field, request'.user_input,
                                             request'.llm).message)
        /\ ~AllFilled(PreState) =>
              /\ PostState.current_step = FirstEmpty(PreState)
              /\ PostState.component = ComponentFor(FirstEmpty(PreState))
      ]_vars

-----------------------------------------------------------------------------
(* C5 *)

BackendFailed ==
    /\ ChatAnswered
    /\ request.field \in SlotNames
    /\ request.llm.kind = "raise"

\* C5: when the validation backend fails, the turn succeeds, the targeted slot
\* holds the raw user text, no error is recorded, and the question presented
\* next is not the one for the targeted slot.
C5_PermissiveFallback ==
    BackendFailed =>
        /\ response.status = 200
        /\ Current[request.field] = StrV(request.user_input)
        /\ Current.error = NoneV
        /\ route_propalyst(Current) # AskNodes[IndexOf(request.field)]
        /\ ~AllFilled(Current) =>
              /\ response.current_step # IndexOf(request.field)
              /\ response.component.field # request.field

C5_Witness ==
    /\ BackendFailed
    /\ request.field = "work_location"
    /\ Current.work_location = StrV(UserText)
    /\ response.status = 200
    /\ response.current_step = 2

-----------------------------------------------------------------------------
(* C6 *)

\* C6: once all five slots are filled, a request for the recommended areas
\* succeeds, returns the area catalog, and leaves recommended_areas populated
\* and calculated = true in the stored session.
C6_AreasPopulated ==
    (request.op = "areas" /\ AllFilled(Current)) =>
        /\ response.status = 200
        /\ response.areas = SomeAreas(AreaCatalog)
        /\ Current.recommended_areas = SomeAreas(AreaCatalog)
        /\ Current.calculated

-----------------------------------------------------------------------------
(* C7 *)

\* C7: invoking the area-recommendation step again on a state whose areas were
\* already calculated leaves recommended_areas, calculated, message and
\* current_step as they were.
C7_SecondCallChangesNothing ==
    (node_calls >= 2 /\ node_prev.calculated) =>
        /\ node_state.recommended_areas = node_prev.recommended_areas
        /\ node_state.calculated = node_prev.calculated
        /\ node_state.message = node_prev.message
        /\ node_state.current_step = node_prev.current_step

-----------------------------------------------------------------------------
(* Claims about the batch relevance scorer *)

\* score_properties_batch has ended, by returning or by raising
ScoringEnded == score_pc \in {"done", "raised"}

\* _score_batch has returned for a batch and the next one has not started
BatchReturned == score_pc \in {"loop", "done"} /\ backend_response.kind # "none"

\* The indexes of the batch that has just returned
LastBatch ==
    LET b == BatchSlice(properties, batch_start - batch_size, batch_size) IN
    {b[k] : k \in 1..Len(b)}

\* The latest attempt did not map a whole response array
BatchFailed ==
    \/ backend_response.kind \in {"raises", "malformed", "non_array"}
    \/ backend_response.kind = "array" /\ backend_response.bad_at > 0

\* C8: for every property list of length N and every batch_size >= 1,
\* score_properties_batch returns exactly N items in input order, each the
\* corresponding input record, under every backend behaviour.
C8_ReturnsAllInOrder ==
    (batch_size >= 1 /\ ScoringEnded) =>
        /\ score_pc = "done"
        /\ scored_properties = [k \in 1..Len(properties) |-> k]

\* C9: after a batch has been scored from a response array, whatever the array
\* held, every item of the batch has an integer relevance_score in 1..10 and a
\* relevance_reason.
C9_EveryItemScored ==
    (BatchReturned /\ backend_response.kind = "array") =>
        \A p \in LastBatch :
            /\ IsInt(properties[p].relevance_score)
            /\ properties[p].relevance_score.n \in 1..10
            /\ properties[p].relevance_reason # Missing

\* C10: when the backend call of a batch raised a non-rate-limit exception,
\* returned malformed JSON or a non-array, failed with rate-limit errors on all
\* attempts, or the mapping of its array raised part-way, every item of that
\* batch ends with relevance_score 5 and a non-empty relevance_reason.
C10_FailedBatchDefaults ==
    (BatchReturned /\ BatchFailed) =>
        \A p \in LastBatch :
            /\ properties[p].relevance_score = IntV(5)
            /\ properties[p].relevance_reason.k = "str"
            /\ properties[p].relevance_reason.s # ""

\* A batch whose response array scored an item in structured form (score 9,
\* its matches are still on the record) before a later element raised
C10_Witness ==
    /\ BatchReturned
    /\ backend_response.kind = "array"
    /\ backend_response.bad_at > 1
    /\ \E p \in LastBatch :
            /\ properties[p].matches = ListV(<<"3 BHK">>)
            /\ properties[p].relevance_score = IntV(5)
            /\ properties[p].relevance_reason = StrV("Batch scoring error")

\* C11: scoring one batch never propagates an exception to its caller: for
\* every non-empty batch and every backend behaviour _score_batch returns a
\* list, from prompt construction through result mapping.  (With a positive
\* batch_size, score_properties_batch raises only when _score_batch did.)
C11_BatchNeverRaises ==
    batch_size > 0 => score_pc # "raised"

\* The latest attempt failed for a reason other than a rate limit
FailedWithoutRateLimit ==
    \/ backend_response.kind \in {"malformed", "non_array"}
    \/ backend_response.kind = "raises" /\ ~IsRateLimit(backend_response.exception)
    \/ backend_response.kind = "array" /\ backend_response.bad_at > 0
                                        /\ results_left = 0 /\ score_pc # "map"

\* C12 (safety part): a batch makes at most 3 backend calls (attempt numbers
\* 0, 1, 2, one call each); an attempt after the first is made only after the
\* previous one failed with a rate-limit error; a failure of any other kind
\* ends the batch at that attempt, with default scores.
C12_RetryOnlyOnRateLimit ==
    /\ attempt + 1 <= 3
    /\ (score_pc = "call" /\ attempt > 0) =>
            /\ backend_response.kind = "raises"
            /\ IsRateLimit(backend_response.exception)
    /\ (score_pc \in {"call", "map"} /\ backend_response.kind = "raises") =>
            IsRateLimit(backend_response.exception)
    /\ (score_pc \in {"call", "map"}) =>
            backend_response.kind \notin {"malformed", "non_array"}
    /\ (BatchReturned /\ FailedWithoutRateLimit) =>
            \A p \in LastBatch : properties[p].relevance_score = IntV(5)

\* A rank of natural numbers, ordered lexicographically: records still to be
\* handed to a batch, the position within the batch (prompt, call, mapping),
\* and the attempts, resp. array elements, still to go
ScoreRank ==
    <<IF ScoringEnded THEN 0
      ELSE 1 + (IF Len(properties) > batch_start THEN Len(properties) - batch_start ELSE 0),
      CASE score_pc = "loop" -> 3 [] score_pc = "call" -> 2 [] score_pc = "map" -> 1
        [] OTHER -> 0,
      IF score_pc = "call" THEN max_retries - attempt ELSE results_left>>

LexLess(a, b) ==
    \/ a[1] < b[1]
    \/ a[1] = b[1] /\ a[2] < b[2]
    \/ a[1] = b[1] /\ a[2] = b[2] /\ a[3] < b[3]

ScoreRankDecreases ==
    /\ \A i \in 1..3 : ScoreRank[i] >= 0 /\ ScoreRank'[i] >= 0
    /\ LexLess(ScoreRank', ScoreRank)

\* C12: the retry discipline above holds throughout, and scoring terminates:
\* every step of the scorer lowers a rank of natural numbers.
C12_BoundedRetries ==
    []C12_RetryOnlyOnRateLimit /\ [][ScoreRankDecreases]_vars

\* The third attempt of a batch is about to be made, after two rate-limit errors
C12_Witness ==
    /\ score_pc = "call"
    /\ attempt = 2
    /\ IsRateLimit(backend_response.exception)

-----------------------------------------------------------------------------
(* Claims about the streaming endpoint *)

\* The server-sent events of the log, without the backend calls
StreamEvents == SelectSeq(stream_log, LAMBDA e : e.kind # "backend_call")

\* C13: in the streaming variant all property events of batch k are emitted
\* before the backend call for batch k+1 starts; one property event is emitted
\* per scraped record, in input order; and the stream ends with exactly one
\* complete event, emitted after every property event, whose count is the
\* number of scraped records.
C13_StreamOrder ==
    /\ \A j \in 1..Len(stream_log) :
            stream_log[j].kind = "backend_call" =>
                \A p \in 1..stream_log[j].at :
                    \E i \in 1..(j - 1) : stream_log[i] = PropertyEvent(p)
    /\ stream_pc = "closed" =>
            StreamEvents = [p \in 1..Len(properties) |-> PropertyEvent(p)]
                           \o <<CompleteEvent(Len(properties))>>

-----------------------------------------------------------------------------
(* Batch endpoint: routers/scraping_router.py, get_listing_details_batch *)

\* a // b of Python (floor division), b # 0
PyFloorDiv(a, b) == IF b > 0 THEN a \div b ELSE (0 - a) \div (0 - b)

\* What the scoring backend does with the batches of one request: it answers
\* every batch with an array that scores each item, or every call fails
BackendModes == {"scores", "fails"}

\* The reason the backend gives is about the query of the prompt it was sent
ReasonFor(user_query) == StrV("Relevant to: " \o user_query)

\* The mapping loop over an array that has one element per item of the batch
RECURSIVE MapAll(_, _, _, _)
MapAll(props, batch, k, user_query) ==
    IF k > Len(batch) THEN props
    ELSE MapAll(MapResult(props, batch,
                          ResultDict(IntV(k - 1), IntV(7), ReasonFor(user_query), Missing, Missing)),
                batch, k + 1, user_query)

\* _score_batch as a whole: [raised, properties, calls]
_score_batch(props, batch, user_query, template, mode) ==
    IF PromptConstructionRaises(props, batch, template)
    THEN [raised |-> TRUE, properties |-> props, calls |-> 0]
    ELSE IF mode = "fails"
    THEN [raised |-> FALSE, calls |-> 1,
          properties |-> DefaultScores(props, batch, "Batch scoring error")]
    ELSE [raised |-> FALSE, calls |-> 1, properties |-> MapAll(props, batch, 1, user_query)]

\* score_properties_batch as a whole, from loop index i on:
\* [raised, properties (the dicts, scored in place), scored (their indexes), calls]
RECURSIVE ScoreFrom(_, _, _, _, _, _, _, _)
ScoreFrom(props, i, scored, calls, user_query, size, template, mode) ==
    IF size = 0 THEN [raised |-> TRUE, properties |-> props, scored |-> scored, calls |-> calls]
    ELSE IF size < 0 \/ i >= Len(props)
    THEN [raised |-> FALSE, properties |-> props, scored |-> scored, calls |-> calls]
    ELSE LET batch == BatchSlice(props, i, size)
             b == _score_batch(props, batch, user_query, template, mode)
         IN IF b.raised
            THEN [raised |-> TRUE, properties |-> b.properties, scored |-> scored,
                  calls |-> calls + b.calls]
            ELSE ScoreFrom(b.properties, i + size, scored \o batch, calls + b.calls,
                           user_query, size, template, mode)

score_properties_batch(props, user_query, size, template, mode) ==
    LET r == ScoreFrom(props, 0, <<>>, 0, user_query, size, template, mode) IN
    [raised |-> r.raised, calls |-> r.calls,
     scored_properties |-> [k \in 1..Len(r.scored) |-> r.properties[r.scored[k]]]]

\* What the scraper does for a request: it raises, or returns the page's records
ScrapeRaises == [raised |-> TRUE, properties |-> <<>>]
ScrapeReturns(props) == [raised |-> FALSE, properties |-> props]

\* The responses of the endpoint
BatchError ==
    [success |-> FALSE, properties |-> <<>>, count |-> 0, from_cache |-> FALSE,
     api_calls_made |-> 0]
BatchCached(cached_properties) ==
    [success |-> TRUE, properties |-> cached_properties, count |-> Len(cached_properties),
     from_cache |-> TRUE, api_calls_made |-> 0]
BatchScored(scored, size) ==
    [success |-> TRUE, properties |-> scored, count |-> Len(scored),
     from_cache |-> FALSE,
     api_calls_made |-> PyFloorDiv(Len(scored) + size - 1, size)]

\* What a request made the handler do
BatchOutcome(file, resp, scraper_calls, service_built, backend_calls) ==
    [file |-> file, response |-> resp, scraper_calls |-> scraper_calls,
     service_built |-> service_built, backend_calls |-> backend_calls]

\* A handler that takes a failed scrape for a page without listings
get_listing_details_batch_lenient(file, url, orig_query, size, use_cache, scrape, has_key, template, mode, now) ==
    LET cached == get_properties_by_url(file, url, now) IN
    IF use_cache /\ cached.found
    THEN BatchOutcome(file, BatchCached(cached.result), 0, FALSE, 0)
    ELSE IF ~has_key THEN BatchOutcome(file, BatchError, 1, FALSE, 0)
    ELSE LET s == score_properties_batch(scrape.properties, orig_query, size, template, mode) IN
         IF s.raised THEN BatchOutcome(file, BatchError, 1, TRUE, s.calls)
         ELSE LET saved == save_scraped_properties(file, url, s.scored_properties, TRUE,
                                                   "squareyards", now)
              IN BatchOutcome(saved[1], BatchScored(s.scored_properties, size), 1, TRUE, s.calls)

\* GET /api/get_listing_details_batch.  scrape, has_key, template and mode say
\* what the scraper, the environment, the prompt file and the backend do.
get_listing_details_batch(file, url, orig_query, size, use_cache, scrape, has_key, template, mode, now) ==
    LET cached == get_properties_by_url(file, url, now) IN
    IF use_cache /\ cached.found
    THEN BatchOutcome(file, BatchCached(cached.result), 0, FALSE, 0)
    ELSE IF scrape.raised THEN BatchOutcome(file, BatchError, 1, FALSE, 0)
    ELSE IF ~has_key THEN BatchOutcome(file, BatchError, 1, FALSE, 0)
    ELSE LET s == score_properties_batch(scrape.properties, orig_query, size, template, mode) IN
         IF s.raised THEN BatchOutcome(file, BatchError, 1, TRUE, s.calls)
         ELSE LET saved == save_scraped_properties(file, url, s.scored_properties, TRUE,
                                                   "squareyards", now)
              IN BatchOutcome(saved[1], BatchScored(s.scored_properties, size), 1, TRUE, s.calls)

(* Requests to the batch endpoint *)

MaxRequests == 2

Queries == {"2bhk east facing", "villa with garden"}

\* Pages: none reachable, no listing, one listing, two listings of which one
\* has no description
ScrapeOutcomes ==
    {ScrapeRaises, ScrapeReturns(<<>>),
     ScrapeReturns(<<ScrapedProperty(1, StrV("2 BHK flat near metro"))>>),
     ScrapeReturns(<<ScrapedProperty(1, StrV("2 BHK flat near metro")),
                     ScrapedProperty(2, NoneV)>>)}

\* The prompt file is the same for every request
BatchInit ==
    /\ batch_call = [op |-> "none"]
    /\ batch_count = 0
    /\ prompt_template \in PromptTemplates

batchFrame == <<chatVars, routeVars, nodeVars, streamVars, overlapVars, askVars, store_log,
                properties, batch_size, scored_properties, batch_start, attempt,
                results_left, backend_response, score_pc, prompt_template>>

BatchRequest ==
    /\ batch_count < MaxRequests
    /\ \E url \in URLs, orig_query \in Queries, size \in BatchSizes, use_cache \in BOOLEAN,
          scrape \in ScrapeOutcomes, has_key \in BOOLEAN, mode \in BackendModes :
        LET r == get_listing_details_batch(data_file, url, orig_query, size, use_cache, scrape,
                                           has_key, prompt_template, mode, batch_count + 1)
        IN  /\ data_file' = r.file
            /\ batch_call' = [op |-> "batch", url |-> url, orig_query |-> orig_query,
                              batch_size |-> size, use_cache |-> use_cache, scrape |-> scrape,
                              has_key |-> has_key, response |-> r.response,
                              scraper_calls |-> r.scraper_calls,
                              service_built |-> r.service_built,
                              backend_calls |-> r.backend_calls]
    /\ batch_count' = batch_count + 1
    /\ UNCHANGED batchFrame

InitBatch ==
    /\ ChatInit /\ RouteIdle /\ NodeIdle /\ StreamIdle /\ StoreIdle /\ OverlapIdle /\ AskIdle
    /\ properties = <<>> /\ batch_size = 10 /\ scored_properties = <<>> /\ batch_start = 0
    /\ attempt = 0 /\ results_left = 0 /\ backend_response = NoResponseYet /\ score_pc = "idle"
    /\ BatchInit
SpecBatch == InitBatch /\ [][BatchRequest]_vars

-----------------------------------------------------------------------------
(* The presenters invoked directly, on any state *)

MaxAskCalls == 2

\* The presenter of slot i
Presenter(i, state) ==
    CASE i = 1 -> ask_work_location(state)
      [] i = 2 -> ask_kids(state)
      [] i = 3 -> ask_commute(state)
      [] i = 4 -> ask_property_type(state)
      [] i = 5 -> ask_budget(state)

\* States in the middle of a conversation: every slot empty, holding a falsy
\* value or holding a proper one; a question in the log and on display
AskInputs ==
    {[StateWithSlots(a, b, c, d, e) EXCEPT
          !.messages = <<AgentMsg(QKids)>>, !.message = m,
          !.component = UIComponent("ButtonGroup", "has_kids"), !.current_step = 2] :
        a \in LlmValues(Slots[1]), b \in LlmValues(Slots[2]), c \in LlmValues(Slots[3]),
        d \in LlmValues(Slots[4]), e \in LlmValues(Slots[5]), m \in {QKids, AckMsg}}

AskInit ==
    /\ ask_state \in AskInputs
    /\ ask_prev = ask_state
    /\ ask_slots = <<>>

askFrame == <<chatVars, routeVars, nodeVars, scoreVars, streamVars, storeVars, overlapVars,
              batchVars>>

Ask ==
    /\ Len(ask_slots) < MaxAskCalls
    /\ \E i \in 1..5 :
        /\ ask_prev' = ask_state
        /\ ask_state' = Presenter(i, ask_state)
        /\ ask_slots' = Append(ask_slots, i)
    /\ UNCHANGED askFrame

InitAsk == ChatInit /\ RouteIdle /\ NodeIdle /\ ScoreIdle /\ StreamIdle /\ StoreIdle /\ OverlapIdle /\ AskInit /\ BatchIdle
SpecAsk == InitAsk /\ [][Ask]_vars

-----------------------------------------------------------------------------
(* Two propalyst_chat requests of one session, interleaved at their awaits *)

MaxTasks == 2

\* Each request carries its own text
UserTextOf(r) == UserText \o " " \o ToString(r)
OverlapFields == {"work_location", "has_kids"}
OverlapRequests(r) ==
    {[user_input |-> "", field |-> ""]}
        \cup {[user_input |-> UserTextOf(r), field |-> f] : f \in OverlapFields}

\* What the validator's backend may do for a request: fail, reply without the
\* keys, reject, or accept with a value
OverlapLlm(req) ==
    IF req.field \in SlotNames
    THEN {LlmRaises, LlmReplyNoKeys, LlmReply(FALSE, NoneV, ShortMsg)}
            \cup {LlmReply(TRUE, v, AckMsg) : v \in LlmValues(req.field) \ {NoneV}}
    ELSE {LlmNotCalled}

NoValidation == [valid |-> FALSE, extracted_value |-> NoneV, message |-> "", haskeys |-> TRUE]

\* A coroutine not yet started
IdleTask ==
    [pc |-> "idle", user_input |-> "", field |-> "", state |-> 0, validation |-> NoValidation,
     updated_state |-> create_propalyst_state(""), overlapped |-> FALSE]

InFlight(r) == tasks[r].pc \in {"validating", "graph"}

OverlapInit ==
    /\ heap = <<>>
    /\ stored = 0
    /\ tasks = [r \in 1..MaxTasks |-> IdleTask]

overlapFrame == <<request, response, turns, routeVars, nodeVars, scoreVars, streamVars, storeVars,
                  askVars, batchVars>>

\* propalyst_chat up to its first await: get_session, then either the validator
\* call or, without an answer, the graph invocation on the stored dict
OverlapEnter(r) ==
    /\ tasks[r].pc = "idle"
    /\ \E sid \in SessionIds, req \in OverlapRequests(r) :
        LET store1 == get_session(sessions, sid)
            heap1 == IF sid \in DOMAIN sessions THEN heap ELSE Append(heap, store1[sid])
            state == IF sid \in DOMAIN sessions THEN stored ELSE Len(heap1)
            entered == [tasks[r] EXCEPT
                          !.user_input = req.user_input, !.field = req.field, !.state = state,
                          !.overlapped = \E q \in 1..MaxTasks : q # r /\ InFlight(q)]
        IN  /\ sessions' = store1
            /\ heap' = heap1
            /\ stored' = state
            /\ tasks' = [tasks EXCEPT ![r] =
                    IF HasInput(req.user_input, req.field)
                    THEN [entered EXCEPT !.pc = "validating"]
                    ELSE [entered EXCEPT !.pc = "graph",
                                         !.updated_state = propalyst_graph(heap1[state])]]
    /\ UNCHANGED overlapFrame

\* The validator has answered: the rest of process_user_answer, which assigns
\* the slot in the dict get_session returned and builds a new dict from it, up
\* to the graph invocation
OverlapValidated(r) ==
    /\ tasks[r].pc = "validating"
    /\ \E sid \in SessionIds, llm \in OverlapLlm(tasks[r]) :
        LET t == tasks[r]
            validation == validate_answer_with_llm(t.field, t.user_input, llm)
            answered == process_user_answer(heap[t.state], t.field, t.user_input, validation)
            heap1 == [heap EXCEPT ![t.state] = AnswerStored(heap[t.state], t.field, validation)]
        IN  IF ~validation.haskeys
            THEN /\ tasks' = [tasks EXCEPT ![r] = [t EXCEPT !.pc = "failed", !.validation = validation]]
                 /\ UNCHANGED <<heap, sessions>>
            ELSE /\ tasks' = [tasks EXCEPT ![r] =
                        [t EXCEPT !.pc = "graph", !.validation = validation,
                                  !.updated_state = propalyst_graph(answered)]]
                 /\ heap' = heap1
                 /\ sessions' = [sessions EXCEPT ![sid] = heap1[stored]]
    /\ UNCHANGED <<stored, overlapFrame>>

\* The graph has returned: update_session and the response
OverlapSave(r) ==
    /\ tasks[r].pc = "graph"
    /\ \E sid \in SessionIds :
        /\ sessions' = update_session(sessions, sid, tasks[r].updated_state)
        /\ heap' = Append(heap, tasks[r].updated_state)
        /\ stored' = Len(heap) + 1
    /\ tasks' = [tasks EXCEPT ![r].pc = "done"]
    /\ UNCHANGED overlapFrame

NextOverlap == \E r \in 1..MaxTasks : OverlapEnter(r) \/ OverlapValidated(r) \/ OverlapSave(r)

InitOverlap == ChatInit /\ RouteIdle /\ NodeIdle /\ ScoreIdle /\ StreamIdle /\ StoreIdle /\ OverlapInit /\ AskIdle /\ BatchIdle
SpecOverlap == InitOverlap /\ [][NextOverlap]_vars

-----------------------------------------------------------------------------
(* Claims about persistence *)

\* The call at position i of the log is op on url
IsCall(i, op, url) ==
    /\ i \in 1..Len(store_log)
    /\ store_log[i].op = op
    /\ store_log[i].url = url

\* C14: after save(url, records), load(url) returns exactly records; after
\* save(url, A) followed by save(url, B), load(url) returns exactly B, with no
\* record of A merged in.
C14_RoundTrip ==
    \A i \in 2..Len(store_log) :
        (store_log[i].op = "load" /\ IsCall(i - 1, "save", store_log[i].url)) =>
            /\ store_log[i].found
            /\ store_log[i].result = store_log[i - 1].properties

\* save(url, A), save(url, B), load(url) with A and B different and not empty
C14_Witness ==
    \E url \in URLs :
        /\ Len(store_log) = 3
        /\ IsCall(1, "save", url) /\ store_log[1].properties = <<ScoredRecord1>>
        /\ IsCall(2, "save", url) /\ store_log[2].properties = <<ScoredRecord2>>
                                   /\ store_log[2].merge
        /\ IsCall(3, "load", url) /\ store_log[3].result = <<ScoredRecord2>>

\* C15: after any sequence of save, delete and clear operations starting from
\* an empty store, the persisted list holds at most one entry per source_url.
C15_OneEntryPerUrl ==
    \A i, j \in 1..Len(data_file.entries) :
        i # j => data_file.entries[i].source_url # data_file.entries[j].source_url

\* The same URL saved twice, merging, and one entry in the file
C15_Witness ==
    \E url \in URLs :
        /\ IsCall(1, "save", url)
        /\ IsCall(2, "save", url) /\ store_log[2].merge
        /\ Len(data_file.entries) = 1

\* An entry for url is in the file
HasEntry(url) ==
    \E k \in 1..Len(data_file.entries) :
        data_file.entries[k].source_url = JsonValue(StrV(url))

\* C16: load(url) returns None if and only if no entry for url is stored: for
\* a never-saved url, and again after delete(url) or clear(), it returns None,
\* while after save(url, []) it returns the empty list and not None.
C16_NoneIffAbsent ==
    LET n == Len(store_log) IN
    (n > 0 /\ store_log[n].op = "load") =>
        LET url == store_log[n].url IN
        /\ store_log[n].found <=> HasEntry(url)
        /\ (\A i \in 1..(n - 1) : ~IsCall(i, "save", url)) => ~store_log[n].found
        /\ (IsCall(n - 1, "delete", url) \/ IsCall(n - 1, "clear", "")) => ~store_log[n].found
        /\ (IsCall(n - 1, "save", url) /\ store_log[n - 1].properties = <<>>) =>
                store_log[n].found /\ store_log[n].result = <<>>

\* save(url, []) and then load(url), which yields the empty list
C16_Witness ==
    \E url \in URLs :
        /\ Len(store_log) = 2
        /\ IsCall(1, "save", url) /\ store_log[1].properties = <<>>
        /\ IsCall(2, "load", url) /\ store_log[2].found /\ store_log[2].result = <<>>

\* C17: loading a store persisted in the old keyed-object format yields, for
\* every key url of the object, exactly one array entry with source_url = url
\* and data = that key's records, both when the key's value is a bare record
\* list and when it is an object wrapping the records.
C17_Migration ==
    LET n == Len(store_log) IN
    (n > 0 /\ store_log[n].op = "get_all" /\ data_file.kind = "object") =>
        \A k \in 1..Len(data_file.entries) :
            LET m == data_file.entries[k]
                records == IF m.shape = "list" THEN m.records ELSE m.entry.data
                loaded == store_log[n].result
            IN (m.shape = "list" \/ (m.shape = "dict" /\ m.entry.has_data)) =>
                /\ Cardinality({j \in 1..Len(loaded) :
                                    loaded[j].source_url = StrV(m.key)}) = 1
                /\ \A j \in 1..Len(loaded) :
                        loaded[j].source_url = StrV(m.key) =>
                            loaded[j].data = [i \in 1..Len(records) |-> PyRecord(records[i])]

-----------------------------------------------------------------------------
(* Claims about overlapping requests *)

AllReturned == \A r \in 1..MaxTasks : tasks[r].pc \in {"done", "failed"}

\* Request r's answer was accepted into its slot
Accepted(r) ==
    /\ tasks[r].pc = "done"
    /\ tasks[r].validation.valid
    /\ tasks[r].field \in SlotNames

LostSlot(r) ==
    /\ Accepted(r)
    /\ \A q \in 1..MaxTasks : (q # r /\ Accepted(q)) => tasks[q].field # tasks[r].field
    /\ \E sid \in SessionIds :
            sessions[sid][tasks[r].field] # tasks[r].validation.extracted_value

LostTranscript(r) ==
    /\ Accepted(r)
    /\ \E sid \in SessionIds :
            \A i \in 1..Len(sessions[sid].messages) :
                sessions[sid].messages[i] # UserMsg(tasks[r].user_input)

\* C18: two chat requests for the same session_id that overlap at their
\* suspension points can lose an update: an interleaving is reachable after
\* which the stored session lacks a slot value or a transcript entry that one
\* of the requests accepted; requests that do not overlap lose nothing.
C18_LossOnlyByOverlap ==
    (AllReturned /\ \E r \in 1..MaxTasks : LostSlot(r) \/ LostTranscript(r)) =>
        \E r \in 1..MaxTasks : tasks[r].overlapped

\* Both requests were accepted, and the stored session lacks the slot value of one
C18_Witness ==
    /\ AllReturned
    /\ Accepted(1) /\ Accepted(2)
    /\ \E r \in 1..2 : LostSlot(r) /\ ~IsNone(tasks[r].validation.extracted_value)

-----------------------------------------------------------------------------
(* Claims about the presenters *)

\* The slot of the presenter invoked last
LastAsked == ask_slots[Len(ask_slots)]

-----------------------------------------------------------------------------
(* Claims about missing credentials *)

\* The latest request was an answer whose validation found no credentials:
\* get_llm raised inside the validator's try
AnsweredWithoutCredentials ==
    /\ request.op = "chat"
    /\ HasInput(request.user_input, request.field)
    /\ request.field \in SlotNames
    /\ request.llm = LlmRaises

\* C20: when the LLM credentials are missing, an operation that needs the LLM
\* ends in an error outcome for the caller and is not degraded to a default: a
\* chat answer submitted without credentials gets an error response and is not
\* accepted into its slot.
C20_FailsFast ==
    AnsweredWithoutCredentials =>
        /\ response.status = 500
        /\ sessions[request.session_id][request.field] # StrV(request.user_input)

-----------------------------------------------------------------------------
(* Claims about the session state across chat turns *)

\* A step that handles one chat request
ChatTurn ==
    /\ turns' = turns + 1
    /\ request'.op = "chat"

IsPrefix(s, t) == Len(s) <= Len(t) /\ SubSeq(t, 1, Len(s)) = s

\* C22: for every chat turn, the messages log stored after the turn has the
\* log stored before the turn as a prefix: entries are only appended.
C22_LogAppendOnly ==
    [][ChatTurn => IsPrefix(PreState.messages, PostState.messages)]_vars

\* An answer was accepted on a session that already had a log, and the log grew
C22_Witness ==
    /\ turns >= 2
    /\ ChatAnswered
    /\ request.field = "has_kids"
    /\ Len(Current.messages) >= 5
    /\ Current.messages[1] = UserMsg(UserText)

\* C23: in every reachable session state current_step is in 1..5, and across
\* chat turns whose answer, if any, targets the pending slot, current_step
\* never decreases.
C23_StepInRange ==
    \A sid \in DOMAIN sessions : sessions[sid].current_step \in 1..5

InDomain(field, v) ==
    CASE field = "work_location" -> v.k = "str" /\ v.s # ""
      [] field = "has_kids" -> v.k = "bool"
      [] field = "commute_time_max" -> v.k = "int" /\ v.n \in 5..120
      [] field = "property_type" -> v.k = "str" /\ v.s \in {"Villa", "Apartment", "Row House"}
      [] field = "budget_max" -> v.k = "int" /\ v.n \in 10000..500000

\* C24: in every reachable session state each filled slot holds a value of its
\* declared domain.
C24_SlotDomains ==
    \A sid \in DOMAIN sessions :
        \A i \in 1..5 :
            ~IsNone(sessions[sid][Slots[i]]) => InDomain(Slots[i], sessions[sid][Slots[i]])

\* C25: in every state, of a session or handed to and returned by the
\* area-recommendation step, calculated is true if and only if
\* recommended_areas is non-null.
C25_CalculatedIffAreas ==
    /\ \A sid \in DOMAIN sessions :
            sessions[sid].calculated <=> sessions[sid].recommended_areas.some
    /\ node_state.calculated <=> node_state.recommended_areas.some

\* The step has run and set both
C25_Witness ==
    /\ node_calls = 1
    /\ ~node_prev.calculated
    /\ node_state.calculated
    /\ node_state.recommended_areas = SomeAreas(AreaCatalog)

\* C27: in every chat response, completed is true exactly when the router
\* finds no unfilled slot in the returned state; completed is never true while
\* the turn presented a question for a still-unfilled slot.
C27_CompletedIffEnd ==
    (request.op = "chat" /\ response.status = 200) =>
        (response.completed <=> route_propalyst(Current) = "end")

\* A chat request without user input that follows another one on the session
RepeatedEmptyTurn ==
    /\ ChatTurn
    /\ ~HasInput(request'.user_input, request'.field)
    /\ request.op = "chat"
    /\ ~HasInput(request.user_input, request.field)
    /\ request.session_id = request'.session_id

\* C28: a chat request without user input is idempotent on the stored session:
\* repeated, it leaves every slot, current_step and the messages log as they
\* were after the first such request.
C28_EmptyTurnIdempotent ==
    [][RepeatedEmptyTurn =>
        /\ SlotsOf(PostState) = SlotsOf(PreState)
        /\ PostState.current_step = PreState.current_step
        /\ PostState.messages = PreState.messages
      ]_vars

-----------------------------------------------------------------------------
(* Claims about the batch endpoint *)

\* A step that handles one request to the batch endpoint
BatchTurn == batch_count' = batch_count + 1 /\ batch_call'.op = "batch"

\* The records stored under url in the file, <<>> when there is no entry
StoredUnder(file, url) == get_properties_by_url(file, url, 0)

\* C21: if the scraper fails for a URL, the batch endpoint reports an error
\* outcome, does not retry the scrape, makes no scoring call and leaves the
\* persisted store unchanged.
C21_ScrapeFailure ==
    [][(BatchTurn /\ batch_call'.scraper_calls > 0 /\ batch_call'.scrape.raised) =>
        /\ ~batch_call'.response.success
        /\ batch_call'.response.properties = <<>>
        /\ batch_call'.scraper_calls = 1
        /\ ~batch_call'.service_built
        /\ batch_call'.backend_calls = 0
        /\ data_file' = data_file
      ]_vars

\* The scrape of a URL failed although the URL has an entry (the cache was not
\* to be used); the entry is still there
C21_Witness ==
    /\ batch_call.op = "batch"
    /\ batch_call.scrape.raised
    /\ batch_call.scraper_calls = 1
    /\ ~batch_call.use_cache
    /\ ~batch_call.response.success
    /\ StoredUnder(data_file, batch_call.url).found
    /\ StoredUnder(data_file, batch_call.url).result # <<>>

\* C26: with use_cache = true and an entry stored for the URL (also one with
\* zero records) the endpoint returns the stored records with from_cache = true
\* and api_calls_made = 0, without invoking the scraper or the backend and
\* without modifying the store; with use_cache = false, or with no entry
\* stored, it scrapes, scores and replaces the entry for the URL.
C26_CacheOrScrape ==
    [][BatchTurn =>
        LET c == batch_call'
            before == StoredUnder(data_file, c.url)
        IN IF c.use_cache /\ before.found
           THEN /\ c.response.success /\ c.response.from_cache
                /\ c.response.properties = before.result
                /\ c.response.api_calls_made = 0
                /\ c.scraper_calls = 0 /\ ~c.service_built /\ c.backend_calls = 0
                /\ data_file' = data_file
           ELSE /\ c.scraper_calls = 1
                /\ (~c.scrape.raised /\ c.has_key) =>
                      /\ c.response.success /\ ~c.response.from_cache
                      /\ c.response.count = Len(c.scrape.properties)
                      /\ StoredUnder(data_file', c.url).found
                      /\ StoredUnder(data_file', c.url).result = c.response.properties
      ]_vars

\* C29: the properties the endpoint returns for a request carry relevance
\* scores computed for that request's query, not the ones stored for the same
\* url under a different earlier query.
C29_ScoresOfThisQuery ==
    (batch_call.op = "batch" /\ batch_call.response.success) =>
        \A k \in 1..Len(batch_call.response.properties) :
            \A q \in Queries \ {batch_call.orig_query} :
                batch_call.response.properties[k].relevance_reason # ReasonFor(q)

\* C30: for a batch_size <= 0 and a non-empty scrape result, the endpoint
\* never reports success with fewer properties than were scraped and never
\* persists a record list shorter than the scrape result under the URL.
C30_NoTruncation ==
    [][(BatchTurn /\ batch_call'.batch_size <= 0 /\ batch_call'.scraper_calls > 0
          /\ ~batch_call'.scrape.raised /\ batch_call'.scrape.properties # <<>>) =>
        /\ batch_call'.response.success =>
              batch_call'.response.count >= Len(batch_call'.scrape.properties)
        /\ data_file' # data_file =>
              Len(StoredUnder(data_file', batch_call'.url).result)
                  >= Len(batch_call'.scrape.properties)
      ]_vars

====
